---- MODULE Spec2Model ----
(***************************************************************************)
(* Model of the RetDec plugin for Binary Ninja (src/__init__.py).          *)
(*                                                                         *)
(* A job is one RetDecDecompiler object: it is constructed on the host's   *)
(* interactive thread (__init__) and then runs on a background thread      *)
(* (run).  The remote service, the host view and the user (who may cancel  *)
(* a task) are the environment: every response they can give is an input   *)
(* of the step that consumes it.                                           *)
(*                                                                         *)
(* The view's session data is modelled as a plain store: a value written   *)
(* with set_default_session_data is what session_data.<name> reads next.   *)
(***************************************************************************)
EXTENDS Integers, Sequences, FiniteSets, TLC

VARIABLES
    session_data,   \* view.session_data: function, address, length (shared by all jobs of a view)
    key_file,       \* the api_key file beside the plugin: NoFile or the stored key
    job,            \* job[j]: the fields, locals and position of RetDecDecompiler object j
    rw              \* a call of merge_binaryninja_symbols or of read_cstring taken by itself

vars == <<session_data, key_file, job, rw>>

----------------------------------------------------------------------------
(* Program constants *)

DECOMPILE_FILE_MODE == 1
DECOMPILE_FUNCTION_MODE == 2
DECOMPILE_RANGE_MODE == 3

\* default of wait_until_finished's max_tries parameter
max_tries == 60

----------------------------------------------------------------------------
(* The universe the inputs are drawn from *)

JobIds == {1, 2}

None == "None"
\* No api_key file, and the key get_or_create_key returns as None: the empty text
NoFile == <<>>
NoKey == <<>>

\* The view holds the offsets 0 .. ViewEnd-1 and the code at 0x1000 .. 0x103f.
ViewEnd == 8

\* Two functions of the view's first part, and the function "main" that spans
\* 0x1000 to 0x1040: start address and the ends of the basic blocks.
Functions == {"f1", "f2"}
MainFunction == "main"
FuncStart ==
    [f \in Functions \cup {MainFunction} |->
       CASE f = "f1" -> 1 [] f = "f2" -> 4 [] OTHER -> 4096]
FuncBlockEnds ==
    [f \in Functions \cup {MainFunction} |->
       CASE f = "f1" -> {2, 3} [] f = "f2" -> {6} [] OTHER -> {4128, 4160}]

\* Arguments of a range job: a start that may lie outside the view, a length that may be 0.
RangeAddresses == {1, 4, 9}
RangeLengths == {0, 2}

\* view.arch.name, as a sequence of characters
ArchNames == { <<"x","8","6">>, <<"X","8","6">>, <<"x","8","6","_","6","4">>,
               <<"a","r","m","v","7">>, <<"a","a","r","c","h","6","4">>,
               <<"p","o","w","e","r","p","c">>, <<"m","i","p","s","3","2">>,
               <<"p","p","c">> }

\* What the user types when prompted for the key
EnteredKeys == { <<>>, <<" ">>, <<"k">>, <<" ","k"," ">> }

\* Remote responses
SubmitResponses == {"ok", "non2xx"}
StatusResponses == {"pending", "succeeded", "failed", "non2xx"}
OutputsResponses == {"links_with_hll", "links_without_hll", "non2xx"}
\* The artifact is the text the service sends: pseudocode that names the entry
\* point and a subroutine, or pseudocode with an address no part of the view holds
PseudoMain ==
    << "v","o","i","d"," ","e","n","t","r","y","_","p","o","i","n","t",
       "(","v","o","i","d",")"," ","{"," ","c","a","l","l","(","s","u",
       "b","_","1","0","2","0",")",";"," ","}" >>
PseudoGoto ==
    << "g","o","t","o"," ","0","x","2","0","0","0",";" >>
ArtifactBodies == {PseudoMain, PseudoGoto}
ArtifactResponses ==
    {[status |-> "non2xx", text |-> <<>>]}
      \cup {[status |-> "ok", text |-> b] : b \in ArtifactBodies}
\* The URLs of the outputs list and of the "hll" artifact, as the service names them
outputs_url == << "/","o","u","t","p","u","t","s" >>
output_url == << "/","o","u","t","p","u","t","s","/","h","l","l" >>

Max(S) == CHOOSE x \in S : \A y \in S : y <= x
Min2(a, b) == IF a <= b THEN a ELSE b

----------------------------------------------------------------------------
(* __init__: architecture and key *)

LowerChar(c) == CASE c = "X" -> "x" [] OTHER -> c
lower(s) == [i \in 1..Len(s) |-> LowerChar(s[i])]
startswith(s, p) == Len(s) >= Len(p) /\ SubSeq(s, 1, Len(p)) = p

\* Mutant of normalize_arch: the prefix tests come before the test for the 64-bit name
normalize_arch_PrefixFirst(name) ==
    LET a == lower(name) IN
    IF startswith(a, <<"a","r","m">>) THEN "arm"
    ELSE IF startswith(a, <<"x","8","6">>) THEN "x86"
    ELSE IF startswith(a, <<"p","o","w","e","r","p","c">>) THEN "powerpc"
    ELSE IF startswith(a, <<"m","i","p","s">>) THEN "mips"
    ELSE None

\* lines 52-67: None when the job is rejected
normalize_arch(name) ==
    LET a == lower(name) IN
    IF a = <<"x","8","6","_","6","4">> THEN None
    ELSE IF startswith(a, <<"a","r","m">>) THEN "arm"
    ELSE IF startswith(a, <<"x","8","6">>) THEN "x86"
    ELSE IF startswith(a, <<"p","o","w","e","r","p","c">>) THEN "powerpc"
    ELSE IF startswith(a, <<"m","i","p","s">>) THEN "mips"
    ELSE None

LF == "\n"
CR == "\r"
TAB == "\t"
FF == "\f"
\* the vertical tab and the backquote, which have no notation here
VT == "<VT>"
BQ == "<BQ>"
Whitespace == {" ", TAB, LF, CR, VT, FF}

\* str.strip() and its halves: whitespace is removed
RECURSIVE lstrip(_)
lstrip(s) == IF s # <<>> /\ Head(s) \in Whitespace THEN lstrip(Tail(s)) ELSE s
RECURSIVE rstrip(_)
rstrip(s) ==
    IF s # <<>> /\ s[Len(s)] \in Whitespace THEN rstrip(SubSeq(s, 1, Len(s) - 1)) ELSE s
strip(s) == rstrip(lstrip(s))

\* get_or_create_key: <<the key or NoKey, the key file afterwards>>
get_or_create_key(file, entered) ==
    IF file = NoFile
      THEN LET key == strip(entered) IN
           IF Len(key) = 0 THEN <<NoKey, file>> ELSE <<key, key>>
      ELSE <<file, file>>

----------------------------------------------------------------------------
(* Text.  A str is a sequence of characters, each a one-character string;
   a byte of the view is a number in 0..255. *)

\* the characters of the bytes 32..126
Ascii ==
    << " ", "!", "\"", "#", "$", "%", "&", "'", "(", ")", "*", "+", ",", "-", ".", "/",
       "0", "1", "2", "3", "4", "5", "6", "7", "8", "9", ":", ";", "<", "=", ">", "?",
       "@", "A", "B", "C", "D", "E", "F", "G", "H", "I", "J", "K", "L", "M", "N", "O",
       "P", "Q", "R", "S", "T", "U", "V", "W", "X", "Y", "Z", "[", "\\", "]", "^", "_",
       BQ, "a", "b", "c", "d", "e", "f", "g", "h", "i", "j", "k", "l", "m", "n", "o",
       "p", "q", "r", "s", "t", "u", "v", "w", "x", "y", "z", "{", "|", "}", "~" >>

\* string.printable: digits, letters, punctuation and whitespace
Printable(b) == b \in 32..126 \/ b \in 9..13

\* the character of a printable byte
Chr(b) ==
    CASE b = 9 -> TAB [] b = 10 -> LF [] b = 11 -> VT [] b = 12 -> FF [] b = 13 -> CR
      [] OTHER -> Ascii[b - 31]

HexDigits == <<"0","1","2","3","4","5","6","7","8","9","a","b","c","d","e","f">>
IsHex(c) == \E i \in 1..Len(HexDigits) : HexDigits[i] = c
HexValue(c) == (CHOOSE i \in 1..Len(HexDigits) : HexDigits[i] = c) - 1

RECURSIVE HexNumber(_)
HexNumber(ds) ==
    IF ds = <<>> THEN 0
    ELSE 16 * HexNumber(SubSeq(ds, 1, Len(ds) - 1)) + HexValue(ds[Len(ds)])

\* int(s, 16) of a text of hexadecimal digits, with or without the prefix 0x
int16(s) ==
    IF startswith(s, <<"0","x">>) THEN HexNumber(SubSeq(s, 3, Len(s))) ELSE HexNumber(s)

RECURSIVE HexText(_)
HexText(n) ==
    IF n < 16 THEN <<HexDigits[n + 1]>>
    ELSE HexText(n \div 16) \o <<HexDigits[(n % 16) + 1]>>

\* "{:#x}".format(n)
format_hex(n) == <<"0","x">> \o HexText(n)

OccursAt(s, sub, i) ==
    i + Len(sub) - 1 <= Len(s) /\ SubSeq(s, i, i + Len(sub) - 1) = sub

\* str.find: the index (from 0) of the first occurrence, -1 when there is none
find(s, sub) ==
    IF \E i \in 1..Len(s) : OccursAt(s, sub, i)
      THEN (CHOOSE i \in 1..Len(s) :
              OccursAt(s, sub, i) /\ \A k \in 1..(i - 1) : ~OccursAt(s, sub, k)) - 1
      ELSE -1

\* sub in s
contains(s, sub) == find(s, sub) >= 0

\* str.replace: every occurrence, found from left to right in s, none overlapping
RECURSIVE replace(_, _, _)
replace(s, old, new) ==
    LET i == find(s, old) IN
    IF i < 0 THEN s
    ELSE SubSeq(s, 1, i) \o new \o replace(SubSeq(s, i + 1 + Len(old), Len(s)), old, new)

\* the first line boundary of s at or after i: its position, 0 when there is none
RECURSIVE NextBreak(_, _)
NextBreak(s, i) ==
    IF i > Len(s) THEN 0
    ELSE IF s[i] \in {LF, CR} THEN i
    ELSE NextBreak(s, i + 1)

\* str.splitlines: boundaries are \n, \r and \r\n; no empty last line
RECURSIVE splitlines(_)
splitlines(s) ==
    IF s = <<>> THEN <<>>
    ELSE LET k == NextBreak(s, 1) IN
         IF k = 0 THEN <<s>>
         ELSE LET n == IF s[k] = CR /\ k < Len(s) /\ s[k + 1] = LF THEN 2 ELSE 1 IN
              <<SubSeq(s, 1, k - 1)>> \o splitlines(SubSeq(s, k + n, Len(s)))

\* '\n'.join(lines)
RECURSIVE join(_)
join(lines) ==
    IF lines = <<>> THEN <<>>
    ELSE IF Len(lines) = 1 THEN lines[1]
    ELSE lines[1] \o <<LF>> \o join(Tail(lines))

----------------------------------------------------------------------------
(* The view as the rewriter sees it: v.sym maps the addresses that have a symbol
   to its name, v.mem maps the readable offsets to their bytes *)

NoSymbol == <<>>
get_symbol_at(v, a) == IF a \in DOMAIN v.sym THEN v.sym[a] ELSE NoSymbol
is_offset_readable(v, a) == a \in DOMAIN v.mem

\* view.read(addr, n): the bytes from addr on, as far as they are readable
RECURSIVE read(_, _, _)
read(v, a, n) ==
    IF n > 0 /\ a \in DOMAIN v.mem THEN <<v.mem[a]>> \o read(v, a + 1, n - 1) ELSE <<>>

\* struct.unpack("<I", b)[0] of four bytes
unpack_I(b) == b[1] + 256 * b[2] + 65536 * b[3] + 16777216 * b[4]

----------------------------------------------------------------------------
(* Host view of the jobs *)

\* Zero bytes at the offsets the view holds, and the symbols of the code at 0x1000
TheView ==
    [ sym |-> (4096 :> <<"m","a","i","n">>) @@ (4128 :> <<"h","e","l","p","e","r">>),
      mem |-> [a \in (0..(ViewEnd - 1)) \cup (4096..4159) |-> 0] ]

is_valid_offset(a) == a \in DOMAIN TheView.mem

\* view.read(addr, length) of decompile_range_bytes: the bytes are identified by
\* where they start and how many there are
view_read(a, n) == [start |-> a, len |-> Len(read(TheView, a, n))]

----------------------------------------------------------------------------
(* read_cstring, lines 23-36 *)

\* lines 30-33: what is appended for the character read
Escaped(c) ==
    IF c = <<>> THEN <<>>
    ELSE CASE c[1] = 10 -> <<"\\", "n">>
           [] c[1] = 9 -> <<"\\", "t">>
           [] c[1] = 11 -> <<"\\", "v">>
           [] c[1] = 12 -> <<"\\", "f">>
           [] OTHER -> <<Chr(c[1])>>

\* line 25: the locals on entry; reads and empty count the reads made and those
\* among them that returned no byte
cstring_start(addr) ==
    [addr |-> addr, s |-> <<>>, done |-> FALSE, reads |-> 0, empty |-> 0]

\* lines 27-35, one iteration: the empty str is "in" string.printable, as every str
\* has the empty str as a substring, so only a non-printable byte ends the loop
cstring_step(v, st) ==
    LET c == read(v, st.addr, 1) IN
    IF c # <<>> /\ ~Printable(c[1])
      THEN [st EXCEPT !.done = TRUE, !.reads = @ + 1]
      ELSE [st EXCEPT !.s = @ \o Escaped(c), !.addr = @ + 1, !.reads = @ + 1,
                      !.empty = @ + (IF c = <<>> THEN 1 ELSE 0)]

\* Past the last readable offset every read is empty
PastEnd(v, a) == \A x \in DOMAIN v.mem : x < a

\* The loop run to its end; from past the last readable offset it has none
RECURSIVE cstring_run(_, _)
cstring_run(v, st) ==
    IF st.done THEN [kind |-> "ok", s |-> st.s, reads |-> st.reads]
    ELSE IF PastEnd(v, st.addr) THEN [kind |-> "hang", s |-> st.s, reads |-> st.reads]
    ELSE cstring_run(v, cstring_step(v, st))

read_cstring(v, addr) == cstring_run(v, cstring_start(addr))

----------------------------------------------------------------------------
(* merge_binaryninja_symbols, lines 273-312 *)

\* line 276: the alternatives of patt, in their order
TokenPrefixes ==
    << <<"u","n","k","n","o","w","n","_">>, <<"d","a","t","a","_">>,
       <<"s","u","b","_">>, <<"0","x">> >>

RECURSIVE HexRun(_, _)
HexRun(s, i) == IF i <= Len(s) /\ IsHex(s[i]) THEN 1 + HexRun(s, i + 1) ELSE 0

\* the length of the match of patt that starts at position i, 0 when there is none
MatchLen(s, i) ==
    LET ok(k) == /\ OccursAt(s, TokenPrefixes[k], i)
                 /\ HexRun(s, i + Len(TokenPrefixes[k])) > 0
        K == {k \in 1..Len(TokenPrefixes) : ok(k)}
    IN IF K = {} THEN 0
       ELSE LET k == CHOOSE k \in K : \A h \in K : k <= h IN
            Len(TokenPrefixes[k]) + HexRun(s, i + Len(TokenPrefixes[k]))

\* patt.findall(s): the matches from left to right, none overlapping
RECURSIVE findall_from(_, _)
findall_from(s, i) ==
    IF i > Len(s) THEN <<>>
    ELSE LET n == MatchLen(s, i) IN
         IF n > 0 THEN <<SubSeq(s, i, i + n - 1)>> \o findall_from(s, i + n)
         ELSE findall_from(s, i + 1)
findall(s) == findall_from(s, 1)

\* lines 290-294: the address a match stands for
token_address(m) ==
    LET i == find(m, <<"_">>) IN
    IF i > 0 THEN int16(replace(m, SubSeq(m, 1, i + 1), <<>>)) ELSE int16(m)

entry_point == <<"e","n","t","r","y","_","p","o","i","n","t">>
Quoted(s) == <<"\"">> \o s \o <<"\"">>

\* A line under rewriting: kind is "ok" while the rewriter runs on, "raise" when it
\* has raised struct.error, "hang" when read_cstring does not return; nsym and nread
\* count the symbol lookups and the memory reads made for the line
StartLine(line) == [line |-> line, kind |-> "ok", nsym |-> 0, nread |-> 0]

\* lines 289-307, one iteration of the loop over the matches
rewrite_token(v, L, m) ==
    IF L.kind # "ok" THEN L
    ELSE
      LET addr == token_address(m)
          sym == get_symbol_at(v, addr)
          L1 == [L EXCEPT !.nsym = @ + 1]
      IN
      IF sym # NoSymbol THEN [L1 EXCEPT !.line = replace(@, m, sym)]
      ELSE
        LET b == read(v, addr, 4)
            L2 == [L1 EXCEPT !.nread = @ + 1]
        IN
        IF Len(b) # 4 THEN [L2 EXCEPT !.kind = "raise"]
        ELSE IF ~is_offset_readable(v, unpack_I(b)) THEN L2
        ELSE
          LET cs == read_cstring(v, unpack_I(b))
              L3 == [L2 EXCEPT !.nread = @ + cs.reads]
          IN
          IF cs.kind = "hang" THEN [L3 EXCEPT !.kind = "hang"]
          ELSE IF Len(cs.s) > 0 THEN [L3 EXCEPT !.line = replace(@, m, Quoted(cs.s))]
          ELSE L3

RECURSIVE rewrite_tokens(_, _, _)
rewrite_tokens(v, L, ms) ==
    IF ms = <<>> THEN L ELSE rewrite_tokens(v, rewrite_token(v, L, Head(ms)), Tail(ms))

\* Mutant of is_comment: the line is not stripped before the test
is_comment_NoStrip(line) ==
    startswith(line, <<"/","/">>) \/ startswith(line, <<"#">>)

\* lines 278-281
is_comment(line) ==
    startswith(strip(line), <<"/","/">>) \/ startswith(strip(line), <<"#">>)

\* Mutant of rewrite_line: the entry-point step is left out
rewrite_line_NoEntry(v, line, entry_point_addr) ==
    IF is_comment(line) THEN StartLine(line)
    ELSE rewrite_tokens(v, StartLine(line), findall(line))

\* lines 278-309, one iteration of the loop over the lines
rewrite_line(v, line, entry_point_addr) ==
    IF is_comment(line) THEN StartLine(line)
    ELSE
      LET L0 == IF contains(line, entry_point)
                  THEN LET sym == get_symbol_at(v, int16(entry_point_addr)) IN
                       [StartLine(IF sym # NoSymbol THEN replace(line, entry_point, sym)
                                  ELSE line) EXCEPT !.nsym = 1]
                  ELSE StartLine(line)
      IN rewrite_tokens(v, L0, findall(L0.line))

\* lines 275-312: pcode as far as the loop gets, and how it ends
RECURSIVE rewrite_lines(_, _, _, _)
rewrite_lines(v, lines, entry_point_addr, pcode) ==
    IF lines = <<>> THEN [kind |-> "ok", pcode |-> pcode]
    ELSE LET L == rewrite_line(v, Head(lines), entry_point_addr) IN
         IF L.kind # "ok" THEN [kind |-> L.kind, pcode |-> pcode]
         ELSE rewrite_lines(v, Tail(lines), entry_point_addr, Append(pcode, L.line))

\* the call: kind "ok" with the text returned, or how it failed to return
merge_binaryninja_symbols(v, code, entry_point_addr) ==
    LET R == rewrite_lines(v, splitlines(code), entry_point_addr, <<>>) IN
    [kind |-> R.kind, text |-> join(R.pcode)]

----------------------------------------------------------------------------
(* State *)

NoJob ==
    [ pc |-> "new",            \* position of the object's constructor / run()
      session |-> FALSE,       \* self.session is not None
      arch |-> None,           \* self.arch
      mode |-> 0,              \* self.mode
      cancelled |-> FALSE,     \* BackgroundTaskThread.cancelled
      target |-> [kind |-> 0, start |-> -1, len |-> -1],  \* what the job was created for
      arg_length |-> -1,       \* __init__'s local length (range mode)
      func |-> None,           \* decompile_function's local func
      addr |-> -1,             \* decompile_range_bytes' local addr
      length |-> -1,           \* decompile_range_bytes' local length
      entry |-> -1,            \* params["data"]["raw_entry_point"], -1: no such key
      staged |-> FALSE,        \* the file made by tempfile.mkstemp exists
      submitted |-> <<>>,      \* the request bodies POSTed to the service
      tries |-> 0,             \* wait_until_finished's local max_tries
      r |-> "unset",           \* start_decompilation's local r
      raw_code |-> <<>>,       \* start_decompilation's local raw_code
      pcode |-> <<>>,          \* start_decompilation's local pcode
      ret |-> "unset",         \* what start_decompilation returned
      exc |-> None,            \* the exception that ended run()
      shown |-> <<>>,          \* texts passed to show_plain_text_report
      nPoll |-> 0,             \* status requests issued
      nList |-> 0,             \* outputs-list requests issued
      nFetch |-> 0,            \* artifact requests issued
      nRewrite |-> 0,          \* calls of merge_binaryninja_symbols
      nLogError |-> 0,         \* log_error calls
      data_len |-> -1,         \* len(data) of decompile_range_bytes' local data, -1: not read
      \* history, read by the properties only
      cause |-> None,          \* why the poll loop returned None
      fault |-> None,          \* what went wrong in download_decompiled_code
      sawFailed |-> FALSE,     \* a poll answered finished=true, succeeded=false
      cancelInLoop |-> FALSE,  \* cancellation arrived in the poll loop, after fewer than max_tries polls
      pollAfterCancel |-> FALSE,  \* a status request was issued with the flag already set
      nWait |-> 0,             \* calls of wait_until_finished
      answers |-> <<>>,        \* the answers to the status requests, in their order
      config |-> "none"        \* what was wrong with the architecture name or the entered key
    ]

\* No call taken by itself: the view, the arguments and the locals of the two loops
NoCall ==
    [ pc |-> "idle",
      view |-> [sym |-> <<>>, mem |-> <<>>],   \* self.view
      code |-> <<>>,           \* merge_binaryninja_symbols' argument code
      entry_point_addr |-> <<>>,   \* its argument entry_point_addr
      lines |-> <<>>,          \* the lines the loop of line 278 has still to take
      pcode |-> <<>>,          \* its local pcode
      text |-> <<>>,           \* what it returned
      done |-> <<>>,           \* history: each line taken, and what became of it
      cs |-> cstring_start(0)  \* read_cstring's locals
    ]

Init ==
    /\ session_data = [function |-> None, address |-> -1, length |-> -1]
    /\ key_file \in {NoFile, <<"k">>}
    /\ job = [j \in JobIds |-> NoJob]
    /\ rw = NoCall

Set(j, rec) == job' = [job EXCEPT ![j] = rec] /\ UNCHANGED rw

Raise(J, e) == [J EXCEPT !.pc = "raised", !.exc = e]

----------------------------------------------------------------------------
(* __init__, lines 46-97 *)

\* *args of the constructor: none for a file job, the function, or address and length
ArgsOf(m) ==
    CASE m = DECOMPILE_FUNCTION_MODE -> {<<f>> : f \in Functions}
      [] m = DECOMPILE_RANGE_MODE -> RangeAddresses \X RangeLengths
      [] OTHER -> {<<>>}

\* What the job was created for: the bytes it is to have decompiled
TargetOf(m, args) ==
    CASE m = DECOMPILE_FUNCTION_MODE ->
           [kind |-> m, start |-> FuncStart[args[1]],
            len |-> Max(FuncBlockEnds[args[1]]) - FuncStart[args[1]]]
      [] m = DECOMPILE_RANGE_MODE -> [kind |-> m, start |-> args[1], len |-> args[2]]
      [] OTHER -> [kind |-> m, start |-> -1, len |-> -1]

\* The configuration errors of a constructor call, in the words of the interface:
\* the 64-bit x86 name, a name with none of the known prefixes (case-insensitive),
\* a prompt answered with nothing but blanks
KnownPrefixes == { <<"a","r","m">>, <<"x","8","6">>, <<"p","o","w","e","r","p","c">>,
                   <<"m","i","p","s">> }
ConfigError(name, entered, file) ==
    IF lower(name) = <<"x","8","6","_","6","4">> THEN "x86_64"
    ELSE IF \A p \in KnownPrefixes : ~startswith(lower(name), p) THEN "unsupported arch"
    ELSE IF file = NoFile /\ (\A i \in 1..Len(entered) : entered[i] = " ")
      THEN "empty credential"
    ELSE "none"

Construct(j, name, entered, m, args) ==
    /\ job[j].pc = "new"
    /\ LET J == [job[j] EXCEPT !.target = TargetOf(m, args),
                               !.config = ConfigError(name, entered, key_file)]
           arch == normalize_arch(name)
           key == get_or_create_key(key_file, entered)
       IN
       IF arch = None
         THEN /\ Set(j, [J EXCEPT !.pc = "ready",
                                  !.nLogError = IF lower(name) = <<"x","8","6","_","6","4">>
                                                  THEN @ ELSE @ + 1])
              /\ UNCHANGED <<session_data, key_file>>
         ELSE /\ key_file' = key[2]
              /\ IF key[1] = NoKey
                   THEN /\ Set(j, [J EXCEPT !.pc = "ready", !.arch = arch, !.nLogError = @ + 1])
                        /\ UNCHANGED session_data
                   ELSE LET K == [J EXCEPT !.arch = arch, !.session = TRUE, !.mode = m] IN
                        CASE m = DECOMPILE_FUNCTION_MODE ->
                               /\ session_data' = [session_data EXCEPT !.function = args[1]]
                               /\ Set(j, [K EXCEPT !.pc = "ready"])
                          [] m = DECOMPILE_RANGE_MODE ->
                               /\ session_data' = [session_data EXCEPT !.address = args[1]]
                               /\ Set(j, [K EXCEPT !.pc = "ctor_length", !.arg_length = args[2]])
                          [] OTHER ->
                               /\ UNCHANGED session_data
                               /\ Set(j, [K EXCEPT !.pc = "ready"])

\* line 93, the constructor's second write in range mode
ConstructSetLength(j) ==
    /\ job[j].pc = "ctor_length"
    /\ session_data' = [session_data EXCEPT !.length = job[j].arg_length]
    /\ Set(j, [job[j] EXCEPT !.pc = "ready"])
    /\ UNCHANGED key_file

----------------------------------------------------------------------------
(* run, lines 315-329, up to its first access of the shared session data *)

\* setup_retdec_params and the mode-specific keys: the body POSTed
FileParams ==
    [mode |-> "bin", vma |-> -1, entry |-> -1, data |-> [start |-> 0, len |-> ViewEnd]]
RawParams(a, data) ==
    [mode |-> "raw", vma |-> a, entry |-> a, data |-> data]

Run(j) ==
    /\ job[j].pc = "ready"
    /\ LET J == job[j] IN
       IF ~J.session
         THEN Set(j, [J EXCEPT !.pc = "returned", !.nLogError = @ + 1])
         ELSE CASE J.mode = DECOMPILE_FILE_MODE -> Set(j, [J EXCEPT !.pc = "submit"])
                [] J.mode = DECOMPILE_FUNCTION_MODE -> Set(j, [J EXCEPT !.pc = "fn_read"])
                [] OTHER -> Set(j, [J EXCEPT !.pc = "rg_addr"])
    /\ UNCHANGED <<session_data, key_file>>

(* decompile_function, lines 248-257 *)

FnReadFunction(j) ==
    /\ job[j].pc = "fn_read"
    /\ Set(j, [job[j] EXCEPT !.pc = "fn_set_addr", !.func = session_data.function])
    /\ UNCHANGED <<session_data, key_file>>

FnSetAddress(j) ==
    /\ job[j].pc = "fn_set_addr"
    /\ session_data' = [session_data EXCEPT !.address = FuncStart[job[j].func]]
    /\ Set(j, [job[j] EXCEPT !.pc = "fn_set_len"])
    /\ UNCHANGED key_file

FnSetLength(j) ==
    /\ job[j].pc = "fn_set_len"
    /\ session_data' = [session_data EXCEPT
                          !.length = Max(FuncBlockEnds[job[j].func]) - FuncStart[job[j].func]]
    /\ Set(j, [job[j] EXCEPT !.pc = "rg_addr"])
    /\ UNCHANGED key_file

(* decompile_range_bytes, lines 213-245 *)

RgReadAddress(j) ==
    /\ job[j].pc = "rg_addr"
    /\ Set(j, [job[j] EXCEPT !.pc = "rg_len", !.addr = session_data.address])
    /\ UNCHANGED <<session_data, key_file>>

RgReadLength(j) ==
    /\ job[j].pc = "rg_len"
    /\ Set(j, [job[j] EXCEPT !.pc = "rg_stage", !.length = session_data.length])
    /\ UNCHANGED <<session_data, key_file>>

\* lines 218-237: the checks, then the staging file
Stage(j) ==
    /\ job[j].pc = "rg_stage"
    /\ LET J == job[j] IN
       IF ~is_valid_offset(J.addr)
         THEN Set(j, [J EXCEPT !.pc = "returned", !.nLogError = @ + 1])
         ELSE LET data == view_read(J.addr, J.length)
                  K == [J EXCEPT !.data_len = data.len] IN
              IF data.len = 0
                THEN Set(j, [K EXCEPT !.pc = "returned"])
                ELSE Set(j, [K EXCEPT !.pc = "submit", !.staged = TRUE, !.entry = J.addr])
    /\ UNCHANGED <<session_data, key_file>>

----------------------------------------------------------------------------
(* start_decompilation, lines 176-194, with submit_request, wait_until_finished
   and download_decompiled_code *)

\* Mutant of LoopContinues: the loop test lets one more iteration through
LoopContinues_OneMore(t) == t >= 0

\* line 149: while max_tries
LoopContinues(t) == t # 0

\* lines 156 and 158: what the poll loop returns when cancelled, when exhausted
CancelledResult == None
ExhaustedResult == None

\* line 185: if r is None: return False
GivesUp(r) == r = None

\* Mutant of AfterWait: a decompilation reported as failed is waited for again
AfterWait_Retry(J) ==
    IF GivesUp(J.r) THEN [J EXCEPT !.pc = "cleanup", !.ret = "False"]
    ELSE IF J.r = "False"
      THEN [J EXCEPT !.pc = "poll", !.r = "unset", !.tries = max_tries, !.nWait = @ + 1]
      ELSE [J EXCEPT !.pc = "list"]

\* lines 185-188, after wait_until_finished has returned J.r
AfterWait(J) ==
    IF GivesUp(J.r) THEN [J EXCEPT !.pc = "cleanup", !.ret = "False"]
                    ELSE [J EXCEPT !.pc = "list"]

\* lines 147-149: entering wait_until_finished
EnterWait(J) ==
    LET K == [J EXCEPT !.tries = max_tries, !.nWait = @ + 1] IN
    IF LoopContinues(K.tries) THEN [K EXCEPT !.pc = "poll"]
    ELSE AfterWait([K EXCEPT !.r = ExhaustedResult, !.cause = "exhausted"])

\* lines 179-184 (the POST is made with the input file open, lines 239-241, 267-269)
Submit(j, resp) ==
    /\ job[j].pc = "submit"
    /\ LET J == [job[j] EXCEPT !.submitted =
                   Append(@, IF job[j].mode = DECOMPILE_FILE_MODE THEN FileParams
                             ELSE RawParams(job[j].addr, view_read(job[j].addr, job[j].length)))]
       IN
       IF resp = "non2xx"
         THEN Set(j, [J EXCEPT !.pc = "cleanup", !.ret = "False", !.nLogError = @ + 1])
         ELSE Set(j, EnterWait(J))
    /\ UNCHANGED <<session_data, key_file>>

\* lines 150-152: one status request and its answer
Poll(j, resp) ==
    /\ job[j].pc = "poll"
    /\ LET J == [job[j] EXCEPT !.nPoll = @ + 1, !.answers = Append(@, resp),
                               !.pollAfterCancel = @ \/ job[j].cancelled] IN
       CASE resp = "non2xx" ->
              \* submit_request returns False, and False['finished'] raises
              Set(j, Raise([J EXCEPT !.nLogError = @ + 1], "TypeError"))
         [] resp = "pending" -> Set(j, [J EXCEPT !.pc = "sleep"])
         [] resp = "succeeded" -> Set(j, AfterWait([J EXCEPT !.r = "True"]))
         [] OTHER -> Set(j, AfterWait([J EXCEPT !.r = "False", !.sawFailed = TRUE]))
    /\ UNCHANGED <<session_data, key_file>>

\* lines 153-156, then the loop test of line 149 and line 158
SleepAndCheck(j) ==
    /\ job[j].pc = "sleep"
    /\ LET J == [job[j] EXCEPT !.tries = @ - 1] IN
       IF J.cancelled
         THEN Set(j, AfterWait([J EXCEPT !.r = CancelledResult, !.cause = "cancelled"]))
         ELSE IF LoopContinues(J.tries)
           THEN Set(j, [J EXCEPT !.pc = "poll"])
           ELSE Set(j, AfterWait([J EXCEPT !.r = ExhaustedResult, !.cause = "exhausted"]))
    /\ UNCHANGED <<session_data, key_file>>

\* lines 165, 170: "Error downloading from '{}'".format(url)
ErrorText(url) ==
    << "E","r","r","o","r"," ","d","o","w","n","l","o","a","d","i","n",
       "g"," ","f","r","o","m"," ","'" >>
      \o url \o <<"'">>

\* lines 163-168; with no "hll" link the next request is made for the URL None,
\* which the requests library rejects by raising before anything is sent
ListOutputs(j, resp) ==
    /\ job[j].pc = "list"
    /\ LET J == [job[j] EXCEPT !.nList = @ + 1] IN
       CASE resp = "non2xx" ->
              Set(j, [J EXCEPT !.pc = "merge", !.raw_code = ErrorText(outputs_url),
                               !.fault = "outputs list failed", !.nLogError = @ + 1])
         [] resp = "links_without_hll" ->
              Set(j, Raise([J EXCEPT !.fault = "hll absent"], "MissingSchema"))
         [] OTHER -> Set(j, [J EXCEPT !.pc = "fetch"])
    /\ UNCHANGED <<session_data, key_file>>

\* lines 169-173
FetchArtifact(j, resp) ==
    /\ job[j].pc = "fetch"
    /\ LET J == [job[j] EXCEPT !.nFetch = @ + 1, !.pc = "merge"] IN
       IF resp.status = "non2xx"
         THEN Set(j, [J EXCEPT !.raw_code = ErrorText(output_url),
                               !.fault = "artifact fetch failed", !.nLogError = @ + 1])
         ELSE Set(j, [J EXCEPT !.raw_code = resp.text])
    /\ UNCHANGED <<session_data, key_file>>

\* lines 190-191: the argument params["data"]["raw_entry_point"] is evaluated first,
\* and a whole-file job's params have no such key; for the other jobs it is the
\* text written at line 226.  A call that does not return leaves the job rewriting.
Merge(j) ==
    /\ job[j].pc = "merge"
    /\ LET J == job[j] IN
       IF J.entry = -1
         THEN Set(j, Raise(J, "KeyError"))
         ELSE LET K == [J EXCEPT !.nRewrite = @ + 1]
                  R == merge_binaryninja_symbols(TheView, J.raw_code, format_hex(J.entry))
              IN
              CASE R.kind = "raise" -> Set(j, Raise(K, "struct.error"))
                [] R.kind = "hang" -> Set(j, [K EXCEPT !.pc = "rewriting"])
                [] OTHER -> Set(j, [K EXCEPT !.pc = "report", !.pcode = R.text])
    /\ UNCHANGED <<session_data, key_file>>

\* lines 192-194
Report(j) ==
    /\ job[j].pc = "report"
    /\ Set(j, [job[j] EXCEPT !.pc = "cleanup", !.ret = "True",
                             !.shown = Append(@, job[j].pcode)])
    /\ UNCHANGED <<session_data, key_file>>

\* start_decompilation has returned: lines 243-245 (os.unlink), line 270
Cleanup(j) ==
    /\ job[j].pc = "cleanup"
    /\ Set(j, [job[j] EXCEPT !.pc = "returned", !.staged = FALSE])
    /\ UNCHANGED <<session_data, key_file>>

\* The user cancels the background task while it exists
Cancel(j) ==
    /\ job[j].pc \notin {"new", "returned", "raised"}
    /\ ~job[j].cancelled
    /\ Set(j, [job[j] EXCEPT !.cancelled = TRUE,
                             !.cancelInLoop = job[j].pc \in {"poll", "sleep"}
                                              /\ job[j].nPoll < max_tries])
    /\ UNCHANGED <<session_data, key_file>>

----------------------------------------------------------------------------
(* Specifications *)

Modes == {DECOMPILE_FILE_MODE, DECOMPILE_FUNCTION_MODE, DECOMPILE_RANGE_MODE}

\* run() up to the point where the request is ready
PrepareRun(j) ==
    \/ Run(j)
    \/ FnReadFunction(j)
    \/ FnSetAddress(j)
    \/ FnSetLength(j)
    \/ RgReadAddress(j)
    \/ RgReadLength(j)
    \/ Stage(j)

\* start_decompilation and the return from it, the service answering a status
\* request with one of `statuses`
Protocol(j, statuses) ==
    \/ \E resp \in SubmitResponses : Submit(j, resp)
    \/ \E resp \in statuses : Poll(j, resp)
    \/ \E resp \in OutputsResponses : ListOutputs(j, resp)
    \/ \E resp \in ArtifactResponses : FetchArtifact(j, resp)
    \/ Merge(j)
    \/ Report(j)
    \/ Cleanup(j)

\* One job on the view
Next ==
    \/ \E name \in ArchNames, entered \in EnteredKeys, m \in Modes :
         \E args \in ArgsOf(m) : Construct(1, name, entered, m, args)
    \/ ConstructSetLength(1)
    \/ PrepareRun(1)
    \/ Protocol(1, StatusResponses)
    \/ SleepAndCheck(1)
    \/ Cancel(1)
Spec == Init /\ [][Next]_vars

\* Two jobs started by function_decompile on the same x86 view, in the runs where
\* the service never reports a job finished and the user cancels at most the
\* first job
NextTwo ==
    \/ \E j \in JobIds :
        \/ \E entered \in EnteredKeys, args \in ArgsOf(DECOMPILE_FUNCTION_MODE) :
             Construct(j, <<"x","8","6">>, entered, DECOMPILE_FUNCTION_MODE, args)
        \/ PrepareRun(j)
        \/ \E resp \in SubmitResponses : Submit(j, resp)
        \/ Poll(j, "pending")
        \/ SleepAndCheck(j)
        \/ Cleanup(j)
    \/ Cancel(1)
SpecTwo == Init /\ [][NextTwo]_vars

\* The background thread keeps running: a step of run() that can be taken is taken
\* One job for the function "main", on an x86 view, with every answer of the service
NextE2E ==
    \/ \E entered \in EnteredKeys :
         Construct(1, <<"x","8","6">>, entered, DECOMPILE_FUNCTION_MODE, <<MainFunction>>)
    \/ PrepareRun(1)
    \/ Protocol(1, StatusResponses)
    \/ SleepAndCheck(1)
    \/ Cancel(1)
SpecE2E == Init /\ [][NextE2E]_vars

RunSteps == (\E resp \in StatusResponses : Poll(1, resp)) \/ SleepAndCheck(1)
FairSpec == Spec /\ WF_vars(RunSteps)

----------------------------------------------------------------------------
(* The rewriter taken by itself: every text and every view of a bounded universe *)

Region(a, bytes) == [x \in a..(a + Len(bytes) - 1) |-> bytes[x - a + 1]]

\* The symbols of a view: none; one at 0x10; at 0x10 and 0x1000; a name at 0x10
\* that contains the text of another token
SymTables ==
    { [x \in {} |-> <<>>],
      16 :> <<"a">>,
      (16 :> <<"a">>) @@ (4096 :> <<"b">>),
      (16 :> <<"s","u","b","_","2","0","w">>) @@ (32 :> <<"g">>) }

\* The bytes of a view.  At 0x10 a pointer to 0x40, at 0x20 two bytes only, at 0x30
\* a pointer to an address that is not readable; at 0x40 the bytes of a string.
PointerBytes ==
    Region(16, <<64, 0, 0, 0>>) @@ Region(32, <<1, 1>>) @@ Region(48, <<153, 153, 0, 0>>)
Memories ==
    { [x \in {} |-> 0],
      PointerBytes @@ Region(64, <<104, 105, 0>>),       \* "hi", then NUL
      PointerBytes @@ Region(64, <<97, 10, 98, 0>>),     \* a line feed inside
      PointerBytes @@ Region(64, <<97, 13, 98, 0>>),     \* a carriage return inside
      PointerBytes @@ Region(64, <<0, 104>>),            \* a non-printable first byte
      PointerBytes @@ Region(64, <<104, 105>>) }         \* "hi" up to the end of the view
Views == [sym : SymTables, mem : Memories]

\* The lines of a text
Lines ==
    { << "x"," ","="," ","0","x","1","0",";" >>,
      << "0","x","1","0"," ","+"," ","0","x","1","0","0","0" >>,
      << "/","/"," ","s","u","b","_","1","0"," ","e","n","t","r","y","_","p","o","i","n","t" >>,
      << " "," ","#"," ","d","a","t","a","_","2","0" >>,
      << "e","n","t","r","y","_","p","o","i","n","t","(","s","u","b","_","1","0",")" >>,
      << "f","(","s","u","b","_","1","0",","," ","s","u","b","_","2","0",")" >>,
      << "y"," ","="," ","0","x","3","0",";" >>,
      << "d","a","t","a","_","2","0" >>,
      << >>,
      << "0","x","1","0"," ","0","x","1","0" >> }
MaxLines == 2
Codes == {join(ls) : ls \in UNION {[1..n -> Lines] : n \in 0..MaxLines}}
EntryAddrs == {format_hex(16)}

\* line 275, the call
StartCall(v, code, e) ==
    [NoCall EXCEPT !.pc = "loop", !.view = v, !.code = code, !.entry_point_addr = e,
                   !.lines = splitlines(code)]

InitRewrite ==
    /\ session_data = [function |-> None, address |-> -1, length |-> -1]
    /\ key_file = NoFile
    /\ job = [j \in JobIds |-> NoJob]
    /\ \E v \in Views, code \in Codes, e \in EntryAddrs : rw = StartCall(v, code, e)

\* lines 278-309, one iteration
RewriteLine ==
    /\ rw.pc = "loop" /\ rw.lines # <<>>
    /\ LET L == rewrite_line(rw.view, Head(rw.lines), rw.entry_point_addr)
           R == [rw EXCEPT !.lines = Tail(@),
                           !.done = Append(@, [in |-> Head(rw.lines), out |-> L])]
       IN rw' = CASE L.kind = "raise" -> [R EXCEPT !.pc = "raised"]
                  [] L.kind = "hang" -> [R EXCEPT !.pc = "reading"]
                  [] OTHER -> [R EXCEPT !.pcode = Append(@, L.line)]
    /\ UNCHANGED <<session_data, key_file, job>>

\* lines 311-312
RewriteReturn ==
    /\ rw.pc = "loop" /\ rw.lines = <<>>
    /\ rw' = [rw EXCEPT !.pc = "returned", !.text = join(rw.pcode)]
    /\ UNCHANGED <<session_data, key_file, job>>

NextRewrite == RewriteLine \/ RewriteReturn
SpecRewrite == InitRewrite /\ [][NextRewrite]_vars

(* read_cstring taken by itself *)

\* Where the read starts: readable offsets, and one past the end of the view
StartAddrs == {16, 17, 32, 48, 64, 65, 66, 128}
\* The loop is followed until this many of its reads have returned nothing
MaxEmptyReads == 3

InitCString ==
    /\ session_data = [function |-> None, address |-> -1, length |-> -1]
    /\ key_file = NoFile
    /\ job = [j \in JobIds |-> NoJob]
    /\ \E v \in Views, a \in StartAddrs :
         rw = [NoCall EXCEPT !.pc = "cstring", !.view = v, !.cs = cstring_start(a)]

\* lines 27-35, one iteration
ReadChar ==
    /\ rw.pc = "cstring" /\ ~rw.cs.done
    /\ rw.cs.empty < MaxEmptyReads
    /\ rw' = [rw EXCEPT !.cs = cstring_step(rw.view, rw.cs)]
    /\ UNCHANGED <<session_data, key_file, job>>

\* line 36
CStringReturn ==
    /\ rw.pc = "cstring" /\ rw.cs.done
    /\ rw' = [rw EXCEPT !.pc = "returned", !.text = rw.cs.s]
    /\ UNCHANGED <<session_data, key_file, job>>

NextCString == ReadChar \/ CStringReturn
SpecCString == InitCString /\ [][NextCString]_vars

----------------------------------------------------------------------------
(* Properties *)

\* run() has stopped, by returning or by an exception leaving it
Ended(j) == job[j].pc \in {"returned", "raised"}

\* start_decompilation gave up: it returned False, and run() returns normally
EndsFailed(j) == job[j].pc \in {"cleanup", "returned"} /\ job[j].ret = "False"

NoDownload(j) == job[j].nList = 0 /\ job[j].nFetch = 0
NoRewriteNoReport(j) == job[j].nRewrite = 0 /\ job[j].shown = <<>>

\* C1: once a status poll has answered finished=true with succeeded=false the job
\* is Failed: start_decompilation returns False, having issued no outputs-list
\* request and no artifact download, not run the rewriter and shown no report.
C1_FailedStatusEndsJob ==
    \A j \in JobIds :
        job[j].sawFailed => EndsFailed(j) /\ NoDownload(j) /\ NoRewriteNoReport(j)

\* C2: once decompile_range_bytes has stopped running, on whatever path, the
\* staging file it created no longer exists.
C2_StagingFileRemoved ==
    \A j \in JobIds : Ended(j) => ~job[j].staged

\* C3: run() never ends with an uncaught exception, whatever the mode and whatever
\* the remote responses.
C3_NoErrorEscapes ==
    \A j \in JobIds : job[j].pc # "raised"

\* C4: when the outputs-list request or the artifact fetch fails, or the outputs
\* list has no 'hll' kind, nothing is handed to the rewriter, no report is shown
\* and start_decompilation does not return True.
C4_DownloadFailureFailsJob ==
    \A j \in JobIds :
        job[j].fault # None => NoRewriteNoReport(j) /\ job[j].ret # "True"

\* C5: when cancellation arrives in the poll loop after fewer than max_tries polls,
\* no status request is issued after it, no outputs-list request, artifact
\* download, rewrite or report follows, and the job ends Cancelled.
C5_CancelStopsPolling ==
    \A j \in JobIds :
        job[j].cancelInLoop =>
            /\ ~job[j].pollAfterCancel
            /\ NoDownload(j) /\ NoRewriteNoReport(j)
            /\ Ended(j) => job[j].cause = "cancelled" /\ EndsFailed(j)

\* C6 (state part): a job never issues more than max_tries status requests; in
\* the loop the remaining budget is what is left of max_tries; and when the loop
\* runs out of attempts the job ends as a failure with no download and no report.
C6_Bounded ==
    \A j \in JobIds :
        /\ job[j].nPoll <= max_tries
        /\ job[j].pc \in {"poll", "sleep"} => job[j].tries = max_tries - job[j].nPoll + 
                                                (IF job[j].pc = "sleep" THEN 1 ELSE 0)
        /\ job[j].pc = "poll" => job[j].nPoll < max_tries
        /\ job[j].cause = "exhausted" =>
              /\ job[j].nPoll = max_tries
              /\ EndsFailed(j) /\ NoDownload(j) /\ NoRewriteNoReport(j)

\* C6: the poll loop is bounded: at most max_tries status requests are issued for
\* every sequence of status responses, the loop always terminates, and a loop
\* that only saw finished=false ends the job as a failure with no download and
\* no report.
C6_PollLoopBounded ==
    /\ []C6_Bounded
    /\ (job[1].pc \in {"poll", "sleep"}) ~> (job[1].pc \notin {"poll", "sleep"})

\* C6 witness: a job whose 60 status requests were all answered finished=false
C6_Witness ==
    job[1].pc = "returned" /\ job[1].cause = "exhausted" /\ job[1].nPoll = max_tries

\* What a job reports of how it ended: the poll loop's result, what
\* start_decompilation returned, what was shown and logged, the requests it made
Outcome(j) ==
    [r |-> job[j].r, ret |-> job[j].ret, shown |-> job[j].shown,
     logged |-> job[j].nLogError, polls |-> job[j].nPoll]

\* C7: a job ended by cancellation and a job ended by exhausted polling are
\* reported distinctly: their outcomes differ.
C7_ReportedDistinctly ==
    \A a, b \in JobIds :
        (Ended(a) /\ Ended(b) /\ job[a].cause = "cancelled" /\ job[b].cause = "exhausted")
            => Outcome(a) # Outcome(b)

\* The request body a job created for `target` is to submit
OwnParams(target) ==
    IF target.kind = DECOMPILE_FILE_MODE THEN FileParams
    ELSE RawParams(target.start, view_read(target.start, target.len))

\* C8: whatever the interleaving of two jobs on the same view, each job submits
\* the bytes and start address of the function or range it was created for.
C8_SubmitsOwnTarget ==
    \A j \in JobIds :
        \A i \in 1..Len(job[j].submitted) : job[j].submitted[i] = OwnParams(job[j].target)

\* The final reports a job has made to the user: texts shown, and error lines logged
FinalReports(j) == Len(job[j].shown) + job[j].nLogError

\* C9: a job that issued a submit request ends having made exactly one final
\* report: the rewritten pseudocode if it succeeded, a failure message otherwise.
C9_ExactlyOneReport ==
    \A j \in JobIds :
        (Ended(j) /\ job[j].submitted # <<>>) =>
            /\ FinalReports(j) = 1
            /\ job[j].ret = "True" => /\ job[j].raw_code \in ArtifactBodies
                                      /\ job[j].shown = <<job[j].pcode>>

\* C10: within a job the submit precedes every status poll, every status poll
\* precedes the outputs-list request and the artifact fetch, these precede the
\* rewrite, and the job runs at most one poll loop and one download.
C10_Step(j) ==
    /\ Len(job'[j].submitted) > Len(job[j].submitted) =>
          job[j].submitted = <<>> /\ job[j].nPoll = 0 /\ job[j].nWait = 0
          /\ NoDownload(j) /\ job[j].nRewrite = 0
    /\ job'[j].nWait > job[j].nWait => job[j].nWait = 0 /\ Len(job'[j].submitted) = 1
    /\ job'[j].nPoll > job[j].nPoll =>
          Len(job[j].submitted) = 1 /\ job[j].nWait = 1
          /\ NoDownload(j) /\ job[j].nRewrite = 0
    /\ job'[j].nList > job[j].nList =>
          job[j].nPoll >= 1 /\ NoDownload(j) /\ job[j].nRewrite = 0
    /\ job'[j].nFetch > job[j].nFetch =>
          job[j].nList = 1 /\ job[j].nFetch = 0 /\ job[j].nRewrite = 0
    /\ job'[j].nRewrite > job[j].nRewrite =>
          job[j].nList = 1 /\ job[j].nRewrite = 0

C10_StrictOrder == [][\A j \in JobIds : C10_Step(j)]_vars

\* C10 witness: a job that submitted, polled more than once, downloaded, rewrote
\* and reported
C10_Witness ==
    /\ job[1].pc = "returned" /\ job[1].nPoll >= 2 /\ job[1].nList = 1
    /\ job[1].nFetch = 1 /\ job[1].nRewrite = 1 /\ Len(job[1].shown) = 1

\* C11: a job whose architecture name is x86_64 or has none of the known prefixes,
\* whose prompted key was entered empty, or whose bytes read have length 0, sends no
\* HTTP request; the job with the empty payload also never has a staging file.
NoRequest(j) ==
    /\ job[j].submitted = <<>>
    /\ job[j].nPoll = 0 /\ job[j].nList = 0 /\ job[j].nFetch = 0
C11_ConfigErrorNoRequest ==
    \A j \in JobIds :
      /\ job[j].config # "none" => NoRequest(j)
      /\ job[j].data_len = 0 => NoRequest(j) /\ ~job[j].staged
C11_Witness ==
    \E j \in JobIds : job[j].pc = "returned"
                       /\ (job[j].config # "none" \/ job[j].data_len = 0)

\* C17: the job for the function spanning 0x1000 to 0x1040 whose status polls are
\* answered pending, pending, succeeded and whose artifact is
\* 'void entry_point(void) { call(sub_1020); }', in a view with the symbols main at
\* 0x1000 and helper at 0x1020, issues one submit, three status polls and one
\* download and shows the single report 'void main(void) { call(helper); }'.
ReportMain ==
    << "v","o","i","d"," ","m","a","i","n","(","v","o","i","d",")"," ",
       "{"," ","c","a","l","l","(","h","e","l","p","e","r",")",";"," ",
       "}" >>
MainScenario(j) ==
    /\ job[j].target = [kind |-> DECOMPILE_FUNCTION_MODE, start |-> 4096, len |-> 64]
    /\ job[j].answers = <<"pending", "pending", "succeeded">>
    /\ job[j].fault = None /\ job[j].raw_code = PseudoMain
    /\ job[j].pc = "returned"
C17_EndToEnd ==
    \A j \in JobIds :
      MainScenario(j) =>
        /\ Len(job[j].submitted) = 1 /\ job[j].nPoll = 3
        /\ job[j].nList = 1 /\ job[j].nFetch = 1
        /\ job[j].shown = <<ReportMain>>
C17_Witness == MainScenario(1) /\ job[1].ret = "True"

\* C19: a whole-file job whose submit succeeds, whose poll reports finished and
\* succeeded and whose two downloads succeed reaches the rewrite step with a defined
\* entry-point anchor and ends with the rewritten pseudocode shown as its report.
C19_FileJobLifecycle ==
    \A j \in JobIds :
      ( /\ job[j].mode = DECOMPILE_FILE_MODE
        /\ job[j].r = "True" /\ job[j].nFetch = 1 /\ job[j].fault = None ) =>
        /\ job[j].pc = "merge" => job[j].entry # -1
        /\ job[j].pc # "raised"
        /\ Ended(j) => job[j].ret = "True" /\ job[j].shown = <<job[j].pcode>>

----------------------------------------------------------------------------
(* Properties of the rewriter *)

\* The line-comment and preprocessor lines: after trimming leading whitespace the
\* line starts with // or with #
IsCommentLine(line) ==
    startswith(lstrip(line), <<"/","/">>) \/ startswith(lstrip(line), <<"#">>)

\* The printable string at an address: the printable bytes from there on, as far
\* as the view holds them, rendered as the quoted literal renders them
RECURSIVE PrintableRun(_, _)
PrintableRun(v, a) ==
    IF a \in DOMAIN v.mem /\ Printable(v.mem[a])
      THEN Escaped(<<v.mem[a]>>) \o PrintableRun(v, a + 1)
      ELSE <<>>

HasSymbol(v, m) == get_symbol_at(v, token_address(m)) # NoSymbol
\* The token has no symbol and its four bytes point to a readable address
PointsToReadable(v, m) ==
    /\ ~HasSymbol(v, m)
    /\ Len(read(v, token_address(m), 4)) = 4
    /\ is_offset_readable(v, unpack_I(read(v, token_address(m), 4)))
\* The token has no symbol and its dereference fails
FailedDeref(v, m) == ~HasSymbol(v, m) /\ ~PointsToReadable(v, m)

\* What a token stands for, resolved by itself: the symbol name, else the quoted
\* non-empty string its bytes point to, else the token
Resolved(v, m) ==
    IF HasSymbol(v, m) THEN get_symbol_at(v, token_address(m))
    ELSE IF PointsToReadable(v, m)
            /\ PrintableRun(v, unpack_I(read(v, token_address(m), 4))) # <<>>
      THEN Quoted(PrintableRun(v, unpack_I(read(v, token_address(m), 4))))
    ELSE m

\* The line with every match replaced where it stands in the line
RECURSIVE Positional(_, _, _)
Positional(v, s, i) ==
    IF i > Len(s) THEN <<>>
    ELSE LET n == MatchLen(s, i) IN
         IF n > 0 THEN Resolved(v, SubSeq(s, i, i + n - 1)) \o Positional(v, s, i + n)
         ELSE <<s[i]>> \o Positional(v, s, i + 1)

\* The line after the entry-point step, the one the matches are found in
AfterEntry(v, line, e) ==
    IF contains(line, entry_point) /\ get_symbol_at(v, int16(e)) # NoSymbol
      THEN replace(line, entry_point, get_symbol_at(v, int16(e)))
      ELSE line
Tokens(d) == findall(AfterEntry(rw.view, d.in, rw.entry_point_addr))
TokenSet(d) == {Tokens(d)[i] : i \in 1..Len(Tokens(d))}
Expected(d) == Positional(rw.view, AfterEntry(rw.view, d.in, rw.entry_point_addr), 1)
Taken == {rw.done[k] : k \in 1..Len(rw.done)}

\* C12: on a rewritten line every matched token is replaced where it stands in the
\* original line: replacing one token never alters another matched token (0x10 and
\* 0x1000) nor text that an earlier replacement inserted.
C12_ReplacementsIndependent ==
    \A d \in Taken :
      (~IsCommentLine(d.in) /\ d.out.kind = "ok") => d.out.line = Expected(d)

\* C13: the returned text has as many lines as the input, and its line i is the
\* rewrite of input line i, whatever the symbol names and recovered strings are.
C13_LineStructurePreserved ==
    rw.pc = "returned" /\ rw.done # <<>> =>
      LET outl == splitlines(rw.text)
          inl == splitlines(join(splitlines(rw.code)))
      IN /\ Len(outl) = Len(inl)
         /\ \A i \in 1..Len(inl) : outl[i] = rw.done[i].out.line

\* C14: a line that starts, after leading whitespace, with // or # is emitted
\* unchanged, with no symbol lookup and no memory read.
C14_CommentLinesUntouched ==
    \A d \in Taken :
      IsCommentLine(d.in) =>
        /\ d.out.kind = "ok" /\ d.out.line = d.in
        /\ d.out.nsym = 0 /\ d.out.nread = 0
C14_Witness ==
    \E d \in Taken :
      /\ IsCommentLine(d.in) /\ Head(d.in) = " "
      /\ \E m \in {findall(d.in)[i] : i \in 1..Len(findall(d.in))} :
           HasSymbol(rw.view, m) \/ PointsToReadable(rw.view, m)

\* C15: a token with no symbol whose dereference fails (fewer than 4 bytes, or a
\* target that is not readable) raises nothing and is left unchanged; the rewriter
\* goes on with the remaining tokens and lines.
C15_FailedDerefNonFatal ==
    \A d \in Taken :
      (~IsCommentLine(d.in) /\ \E m \in TokenSet(d) : FailedDeref(rw.view, m)) =>
        /\ d.out.kind # "raise"
        /\ (d.out.kind = "ok" /\ Cardinality(TokenSet(d)) = 1) => d.out.line = Expected(d)

\* C16: a token with no symbol whose four bytes point to a readable address is
\* replaced, at every occurrence, by the quoted printable string found there when
\* that string is not empty and is left unchanged when its first byte is not
\* printable; a token with a symbol is replaced by the name and nothing is read.
C16_StringFallback ==
    \A d \in Taken :
      ( /\ ~IsCommentLine(d.in) /\ TokenSet(d) # {}
        /\ \A m \in TokenSet(d) : HasSymbol(rw.view, m) \/ PointsToReadable(rw.view, m) ) =>
        /\ d.out.kind = "ok" /\ d.out.line = Expected(d)
        /\ (\A m \in TokenSet(d) : HasSymbol(rw.view, m)) => d.out.nread = 0

\* C18: read_cstring stops after finitely many reads: a read that returns nothing,
\* as a read past the end of the view does, ends the loop.
C18_ReadCStringTerminates ==
    rw.pc = "cstring" => (rw.cs.empty = 0 \/ rw.cs.done)

====
